---------------------------- MODULE Spec2Model ----------------------------
(***************************************************************************)
(* Tax-aware bond reinvestment simulator (src/app.py).                     *)
(*                                                                         *)
(* The script reads seven parameters from the sidebar widgets, runs the    *)
(* monthly accrual loop (lines 62-89) and then the final calculations      *)
(* (lines 91-105).  The Python floats are modelled as exact rationals      *)
(* [n, d] in lowest terms, so every +, -, * and / below is the real-number *)
(* operation the float operation approximates; IEEE rounding (relative     *)
(* error about 1e-16 per operation) is not modelled.  Slider values with   *)
(* step 0.1 are tenths: a rate of 14.0 is Rat(140, 10).                    *)
(***************************************************************************)
EXTENDS Integers, Sequences, FiniteSets, TLC

-----------------------------------------------------------------------------
(* Exact rational arithmetic standing for Python's float operators.        *)

Abs(i) == IF i < 0 THEN -i ELSE i

RECURSIVE GCD(_, _)
GCD(a, b) == IF b = 0 THEN a ELSE GCD(b, a % b)

\* the rational n/d (d # 0) in lowest terms with a positive denominator
Rat(n, d) ==
    LET g == GCD(Abs(n), Abs(d))
        s == IF d < 0 THEN -1 ELSE 1
    IN  [n |-> s * (n \div g), d |-> s * (d \div g)]

FromInt(i) == [n |-> i, d |-> 1]

Zero == FromInt(0)

\* x + y
RAdd(x, y) ==
    LET g == GCD(x.d, y.d)
    IN  Rat(x.n * (y.d \div g) + y.n * (x.d \div g), (x.d \div g) * y.d)

RNeg(x) == [n |-> -x.n, d |-> x.d]

\* x - y
RSub(x, y) == RAdd(x, RNeg(y))

\* x * y, cancelling across before multiplying
RMul(x, y) ==
    LET g1 == GCD(Abs(x.n), y.d)
        g2 == GCD(Abs(y.n), x.d)
    IN  Rat((x.n \div g1) * (y.n \div g2), (x.d \div g2) * (y.d \div g1))

\* x / y for y # 0 (Python raises ZeroDivisionError when y = 0)
RDiv(x, y) == RMul(x, Rat(y.d, y.n))

RIsNeg(x) == x.n < 0

\* x <= y
RLeq(x, y) == ~RIsNeg(RSub(y, x))

\* x < y
RLess(x, y) == RIsNeg(RSub(x, y))

-----------------------------------------------------------------------------
(* Bounds and the parameter values explored.  The values are picked inside *)
(* the widgets' ranges so that the exact fractions of a run of up to       *)
(* MaxMonths + 1 months stay within TLC's 32-bit integers.                 *)

\* longest investment period explored (the slider allows up to 60)
MaxMonths == 3

\* st.number_input(min_value=10000, step=10000)
Capitals == {10000, 100000}

\* st.slider(1.0, 30.0, 14.0, 0.1), in tenths of a percent
HighYieldRates == {60, 300}

\* st.slider(1.0, 20.0, 12.0, 0.1), in tenths of a percent
TreasuryRates == {120, 200}

\* st.slider(1.0, 20.0, 10.0, 0.1), in tenths of a percent
BorrowingRates == {30, 180}

\* st.slider(1.0, 3.0, 1.0, 0.1), in tenths
LeverageRatios == {10, 30}

\* st.slider(15.0, 35.0, ...) for either entity type, in tenths of a percent
TaxRates == {200, 250}

\* st.slider(1, 60, 12, 1), cut at MaxMonths
MonthChoices == 1..MaxMonths

-----------------------------------------------------------------------------
VARIABLES
    initial_investment,    \* int, sidebar
    high_yield_rate,       \* rational, sidebar
    treasury_rate,         \* rational, sidebar
    borrowing_rate,        \* rational, sidebar
    months,                \* int, sidebar
    leverage_ratio,        \* rational, sidebar
    tax_rate,              \* rational, sidebar
    month,                 \* the for loop's next value of `month`
    high_yield_principal,
    treasury_principal,
    borrowed_balance,
    total_reinvested,
    loan_interest_paid,
    total_interest_income,
    records,               \* the list `records` / the DataFrame df
    summary,               \* the names bound by lines 95-105
    pc                     \* "loop", "done", or the exception that ended the run

config == <<initial_investment, high_yield_rate, treasury_rate, borrowing_rate,
            months, leverage_ratio, tax_rate>>

loopvars == <<month, high_yield_principal, treasury_principal, borrowed_balance,
              total_reinvested, loan_interest_paid, total_interest_income,
              records>>

vars == <<config, loopvars, summary, pc>>

-----------------------------------------------------------------------------
(* Lines 43-49: values derived once from the parameters.                   *)

borrowed_amount == RMul(FromInt(initial_investment), leverage_ratio)

MonthlyRate(annual) == RDiv(RDiv(annual, FromInt(12)), FromInt(100))

monthly_high == MonthlyRate(high_yield_rate)

monthly_treasury == MonthlyRate(treasury_rate)

monthly_borrow == MonthlyRate(borrowing_rate)

\* the summary names before lines 95-105 have bound them
NoSummary ==
    [final_treasury |-> Zero, total_loan_cost |-> Zero,
     total_taxable_income |-> Zero, tax_paid |-> Zero,
     investor_final |-> Zero, net_profit |-> Zero, annualized_return |-> Zero]

\* lines 51-60 for given widget values
InitWith(cap, hy, tr, br, mo, lev, tax) ==
    /\ initial_investment = cap
    /\ high_yield_rate = Rat(hy, 10)
    /\ treasury_rate = Rat(tr, 10)
    /\ borrowing_rate = Rat(br, 10)
    /\ months = mo
    /\ leverage_ratio = Rat(lev, 10)
    /\ tax_rate = Rat(tax, 10)
    /\ month = 1
    /\ high_yield_principal = FromInt(cap)
    /\ treasury_principal = RMul(FromInt(cap), Rat(lev, 10))
    /\ borrowed_balance = RMul(FromInt(cap), Rat(lev, 10))
    /\ total_reinvested = Zero
    /\ loan_interest_paid = Zero
    /\ total_interest_income = Zero
    /\ records = << >>
    /\ summary = NoSummary
    /\ pc = "loop"

\* the widgets' default rates with a one-month period: capital 100000,
\* 14% / 12% / 10%, leverage 1.0, tax 25%
ReferenceInit == InitWith(100000, 140, 120, 100, 1, 10, 250)

\* the widgets only return values inside their ranges
Init ==
    \/ \E cap \in Capitals, hy \in HighYieldRates, tr \in TreasuryRates,
          br \in BorrowingRates, mo \in MonthChoices, lev \in LeverageRatios,
          tax \in TaxRates :
           InitWith(cap, hy, tr, br, mo, lev, tax)
    \/ ReferenceInit

\* lines 43-105 run on parameters the widgets would not return: a zero
\* period, a zero or negative capital, negative rates
EngineCapitals == {-10000, 0, 10000}

EngineRates == {-120, 120}

EngineInit ==
    \E cap \in EngineCapitals, hy \in EngineRates, tr \in EngineRates,
       mo \in 0..MaxMonths :
        InitWith(cap, hy, tr, 120, mo, 10, 250)

-----------------------------------------------------------------------------
(* Lines 62-89: one iteration of the monthly loop.                         *)

\* line 64
HighYieldInterest(principal, rate) == RMul(principal, rate)

\* a slip: the treasury interest taken after this month's high-yield
\* interest has already been added to the balance
TreasuryInterest_AfterReinvesting(principal, rate) ==
    RMul(RAdd(principal, RMul(high_yield_principal, monthly_high)), rate)

\* line 65
TreasuryInterest(principal, rate) == RMul(principal, rate)

\* line 71
TotalReinvestment(hyi, ti) == RAdd(hyi, ti)

\* a slip: the interest withdrawn from the balance (-= for +=)
Reinvest_Withdrawn(principal, amount) == RSub(principal, amount)

\* line 72: treasury_principal += total_reinvestment
Reinvest(principal, amount) == RAdd(principal, amount)

\* line 76
MonthlyLoanInterest(balance, rate) == RMul(balance, rate)

\* a slip: the compounding variant, borrowed_balance += monthly_loan_interest
BorrowedBalanceAfter_Compounding(balance, interest) == RAdd(balance, interest)

\* lines 75-77: the interest is accrued in loan_interest_paid and
\* borrowed_balance is not assigned, so the loan does not compound
BorrowedBalanceAfter(balance, interest) == balance

\* a slip: range(1, months)
LoopContinues_OffByOne(m, mo) == m < mo

\* line 62: range(1, months + 1)
LoopContinues(m, mo) == m <= mo

\* a slip: the treasury interest left out of the record's income
RecordInterestIncome_HighYieldOnly(hyi, ti) == hyi

\* line 84
RecordInterestIncome(hyi, ti) == RAdd(hyi, ti)

\* a slip: the variant in which the treasury bond is tax-free
RecordTaxableIncome_TreasuryExempt(hyi, ti, loan) == RSub(hyi, loan)

\* line 86
RecordTaxableIncome(hyi, ti, loan) == RSub(RAdd(hyi, ti), loan)

\* lines 80-89
MakeRecord(m, hyi, ti, loan, balance, cumLoan) ==
    [Month |-> m,
     HighYieldInterest |-> hyi,
     TreasuryInterest |-> ti,
     TotalInterestIncome |-> RecordInterestIncome(hyi, ti),
     LoanInterestPaid |-> loan,
     TaxableIncome |-> RecordTaxableIncome(hyi, ti, loan),
     TreasuryBalance |-> balance,
     CumulativeLoanInterest |-> cumLoan]

MonthStep ==
    /\ pc = "loop"
    /\ LoopContinues(month, months)
    /\ LET high_yield_interest == HighYieldInterest(high_yield_principal, monthly_high)
           treasury_interest == TreasuryInterest(treasury_principal, monthly_treasury)
           total_reinvestment == TotalReinvestment(high_yield_interest, treasury_interest)
           monthly_loan_interest == MonthlyLoanInterest(borrowed_balance, monthly_borrow)
       IN  /\ total_interest_income' =
                RAdd(total_interest_income, RAdd(high_yield_interest, treasury_interest))
           /\ treasury_principal' = Reinvest(treasury_principal, total_reinvestment)
           /\ total_reinvested' = RAdd(total_reinvested, total_reinvestment)
           /\ loan_interest_paid' = RAdd(loan_interest_paid, monthly_loan_interest)
           /\ borrowed_balance' =
                BorrowedBalanceAfter(borrowed_balance, monthly_loan_interest)
           /\ records' = Append(records,
                MakeRecord(month, high_yield_interest, treasury_interest,
                           monthly_loan_interest, treasury_principal',
                           loan_interest_paid'))
    /\ month' = month + 1
    /\ UNCHANGED <<config, high_yield_principal, summary, pc>>

-----------------------------------------------------------------------------
(* Lines 91-105: the final calculations, once the loop is exhausted.       *)

\* df["Taxable Income"].sum()
RECURSIVE SumTaxableIncome(_)
SumTaxableIncome(rs) ==
    IF rs = << >> THEN Zero
    ELSE RAdd(SumTaxableIncome(SubSeq(rs, 1, Len(rs) - 1)), rs[Len(rs)].TaxableIncome)

\* a slip: only the principal is repaid, the accrued interest is forgotten
TotalLoanCost_PrincipalOnly(borrowed, cumLoan) == borrowed

\* line 96
TotalLoanCost(borrowed, cumLoan) == RAdd(borrowed, cumLoan)

\* line 100
TaxPaid(taxable, rate) == RMul(taxable, RDiv(rate, FromInt(100)))

\* a slip: the tax is not taken off the final position
InvestorFinal_BeforeTax(hyp, treasury, loanCost, tax) ==
    RSub(RAdd(hyp, treasury), loanCost)

\* line 103
InvestorFinal(hyp, treasury, loanCost, tax) ==
    RSub(RSub(RAdd(hyp, treasury), loanCost), tax)

\* line 104
NetProfit(final, cap) == RSub(final, FromInt(cap))

\* line 105
AnnualizedReturn(profit, cap, mo) ==
    RMul(RMul(RDiv(profit, FromInt(cap)), Rat(12, mo)), FromInt(100))

FinalCalculations ==
    /\ pc = "loop"
    /\ ~LoopContinues(month, months)
    /\ records # << >>
    /\ initial_investment # 0
    /\ LET last == records[Len(records)]
           final_treasury == last.TreasuryBalance
           total_loan_cost == TotalLoanCost(borrowed_amount, last.CumulativeLoanInterest)
           total_taxable_income == SumTaxableIncome(records)
           tax_paid == TaxPaid(total_taxable_income, tax_rate)
           investor_final == InvestorFinal(high_yield_principal, final_treasury,
                                           total_loan_cost, tax_paid)
           net_profit == NetProfit(investor_final, initial_investment)
       IN  summary' =
             [final_treasury |-> final_treasury,
              total_loan_cost |-> total_loan_cost,
              total_taxable_income |-> total_taxable_income,
              tax_paid |-> tax_paid,
              investor_final |-> investor_final,
              net_profit |-> net_profit,
              annualized_return |->
                  AnnualizedReturn(net_profit, initial_investment, months)]
    /\ pc' = "done"
    /\ UNCHANGED <<config, loopvars>>

\* line 95 on an empty DataFrame: df.iloc[-1] raises IndexError
FinalIndexError ==
    /\ pc = "loop"
    /\ ~LoopContinues(month, months)
    /\ records = << >>
    /\ pc' = "IndexError"
    /\ UNCHANGED <<config, loopvars, summary>>

\* lines 95-104 run, then line 105 divides by initial_investment = 0
FinalZeroDivision ==
    /\ pc = "loop"
    /\ ~LoopContinues(month, months)
    /\ records # << >>
    /\ initial_investment = 0
    /\ LET last == records[Len(records)]
           final_treasury == last.TreasuryBalance
           total_loan_cost == TotalLoanCost(borrowed_amount, last.CumulativeLoanInterest)
           total_taxable_income == SumTaxableIncome(records)
           tax_paid == TaxPaid(total_taxable_income, tax_rate)
           investor_final == InvestorFinal(high_yield_principal, final_treasury,
                                           total_loan_cost, tax_paid)
       IN  summary' =
             [summary EXCEPT !.final_treasury = final_treasury,
                             !.total_loan_cost = total_loan_cost,
                             !.total_taxable_income = total_taxable_income,
                             !.tax_paid = tax_paid,
                             !.investor_final = investor_final,
                             !.net_profit = NetProfit(investor_final, initial_investment)]
    /\ pc' = "ZeroDivisionError"
    /\ UNCHANGED <<config, loopvars>>

\* with widget parameters the loop runs at least once and the capital is
\* at least 10000, so neither exception can be raised
Next == MonthStep \/ FinalCalculations

Spec == Init /\ [][Next]_vars

EngineNext == MonthStep \/ FinalCalculations \/ FinalIndexError \/ FinalZeroDivision

EngineSpec == EngineInit /\ [][EngineNext]_vars

-----------------------------------------------------------------------------
(* Properties.                                                             *)

\* a column of the monthly table summed row by row
RECURSIVE SumInterestIncome(_)
SumInterestIncome(rs) ==
    IF rs = << >> THEN Zero
    ELSE RAdd(SumInterestIncome(SubSeq(rs, 1, Len(rs) - 1)),
              rs[Len(rs)].TotalInterestIncome)

\* a non-negative amount in hundredths, rounded half up (two decimals)
Cents(x) == (200 * x.n + x.d) \div (2 * x.d)

\* the treasury balance at the start of month i
StartBalance(i) == IF i = 1 THEN borrowed_amount ELSE records[i - 1].TreasuryBalance

\* capital 100000, leverage 1, 14% / 12% / 10%, one month, tax 25%
IsReferenceScenario ==
    /\ initial_investment = 100000
    /\ leverage_ratio = FromInt(1)
    /\ high_yield_rate = FromInt(14)
    /\ treasury_rate = FromInt(12)
    /\ borrowing_rate = FromInt(10)
    /\ months = 1
    /\ tax_rate = FromInt(25)

\* C1: for every configuration the widgets admit, the tax due is >= 0,
\* also when the loan interest exceeds the interest income.
\* The code multiplies the unfloored taxable income by the rate (line 100).
C1_TaxNeverNegative ==
    pc = "done" => ~RIsNeg(summary.tax_paid)

InvalidConfiguration ==
    \/ months <= 0
    \/ initial_investment <= 0
    \/ RIsNeg(high_yield_rate) \/ RIsNeg(treasury_rate) \/ RIsNeg(borrowing_rate)

C5_OneRecordPerMonth ==
    /\ Len(records) = month - 1
    /\ month <= months + 1
    /\ \A i \in 1..Len(records) : records[i].Month = i
    /\ pc = "done" => (Len(records) = months /\ month = months + 1)

\* a finished run of the longest period, all its records in place
C5_Witness ==
    /\ pc = "done"
    /\ months = MaxMonths
    /\ Len(records) = MaxMonths
    /\ records[MaxMonths].Month = MaxMonths

\* C6: the balance the loan interest is computed on is the original
\* borrowed amount throughout, so every month's Loan Interest Paid is
\* borrowed amount * monthly borrowing rate and the Cumulative Loan
\* Interest at month m is m times that.
C6_LoanBalanceConstant ==
    /\ borrowed_balance = borrowed_amount
    /\ \A i \in 1..Len(records) :
          /\ records[i].LoanInterestPaid = RMul(borrowed_amount, monthly_borrow)
          /\ records[i].CumulativeLoanInterest =
                RMul(FromInt(i), RMul(borrowed_amount, monthly_borrow))

\* two months of positive loan interest have been recorded
C6_Witness ==
    /\ Len(records) >= 2
    /\ RLess(Zero, records[2].LoanInterestPaid)
    /\ RLess(records[1].CumulativeLoanInterest, records[2].CumulativeLoanInterest)

\* C7: the recorded Treasury Balance never decreases from one month to the
\* next, the month-1 balance is at least the borrowed amount, and the
\* high-yield principal stays equal to the initial capital.
C7_BalancesNeverDecrease ==
    /\ \A i \in 1..Len(records) : RLeq(StartBalance(i), records[i].TreasuryBalance)
    /\ high_yield_principal = FromInt(initial_investment)

\* the balance has grown over two recorded months
C7_Witness ==
    /\ Len(records) >= 2
    /\ RLess(borrowed_amount, records[1].TreasuryBalance)
    /\ RLess(records[1].TreasuryBalance, records[2].TreasuryBalance)

\* C8: after the loop the Total Interest Income column sums to the
\* accumulator total_interest_income, which equals total_reinvested and
\* the final treasury balance minus the borrowed amount.
C8_InterestIncomeRoundTrip ==
    pc = "done" =>
        /\ SumInterestIncome(records) = total_interest_income
        /\ total_interest_income = total_reinvested
        /\ total_interest_income = RSub(summary.final_treasury, borrowed_amount)

\* a finished run of several months with income in every month
C8_Witness ==
    /\ pc = "done"
    /\ Len(records) >= 2
    /\ \A i \in 1..Len(records) : RLess(Zero, records[i].TotalInterestIncome)

\* C9: each month both interests come from the balances at the start of
\* the month (the high-yield principal, and the previous month's ending
\* treasury balance), the treasury balance then grows by their sum, and the
\* next month starts from this month's ending balance.
C9_InterestOnStartingBalances ==
    /\ \A i \in 1..Len(records) :
          /\ records[i].HighYieldInterest =
                RMul(FromInt(initial_investment), monthly_high)
          /\ records[i].TreasuryInterest = RMul(StartBalance(i), monthly_treasury)
          /\ records[i].TreasuryBalance =
                RAdd(StartBalance(i),
                     RAdd(records[i].HighYieldInterest, records[i].TreasuryInterest))
    /\ treasury_principal = StartBalance(Len(records) + 1)

\* a second month's interest has been taken on a balance that holds the
\* first month's reinvestment
C9_Witness ==
    /\ Len(records) >= 2
    /\ RLess(records[1].TreasuryInterest, records[2].TreasuryInterest)

\* C10: the total taxable income (the sum of the per-month Taxable Income
\* fields) is the cumulative interest income of both bonds minus the
\* cumulative loan interest; it may be negative.
C10_TaxableIncomeIsIncomeMinusLoanInterest ==
    pc = "done" =>
        summary.total_taxable_income = RSub(total_interest_income, loan_interest_paid)

\* a finished run of several months whose taxable income is negative
C10_Witness ==
    /\ pc = "done"
    /\ Len(records) >= 2
    /\ RIsNeg(summary.total_taxable_income)
    /\ RLess(Zero, total_interest_income)

=============================================================================
